---- MODULE Spec2Model ----
(***************************************************************************)
(* DatabaseService (src/DatabaseService.ts): an embedding store on top of  *)
(* a libSQL table, with cosine-distance search.                            *)
(*                                                                         *)
(* Representation.                                                         *)
(*  - A Float32Array is a record [len, head]: `len` is its length and      *)
(*    `head` its leading components; the components after the head are 0.  *)
(*    The length can so be the real dimension (512) and its neighbours.    *)
(*  - A component is [k, v]: a finite number v (k = "num"), NaN, or an     *)
(*    infinity with sign v. Finite components are small integers.          *)
(*  - The text handed to the SQL function vector(?) is [len, toks]: one    *)
(*    decimal literal (a sequence of characters) per head component.       *)
(*  - A distance is a fixed-point number, in thousandths.                  *)
(*  - Crypto.randomUUID() yields values that never repeat: the n-th call   *)
(*    yields n.                                                            *)
(***************************************************************************)
EXTENDS Integers, Sequences, FiniteSets, TLC

VARIABLES
    db,         \* this.db: "undefined" until open() assigns the handle
    model,      \* this.model: "null" or "loaded"
    table,      \* the table embeddings of vector_db.db: "absent", "created", "indexed"
    rows,       \* its rows
    openPc,     \* where the call of open() waits
    opens,      \* calls of open() so far
    call,       \* per call site, its call of storeEmbedding or searchSimilar in flight
    calls,      \* calls of storeEmbedding and searchSimilar so far
    nextUuid,   \* how many uuids Crypto.randomUUID() has generated, plus one
    result,     \* what the step just taken returned or threw to a caller
    stored,     \* history: the rows storeEmbedding inserted since the last DROP TABLE
    discarded,  \* history: how many rows of `stored` the last DROP TABLE discarded
    qDist, qOther, qOut,   \* two distances and what searchSimilar derives from them
    cIn, cOut,  \* an embedding, and what is persisted for it
    appModel,   \* the App screen's state `model`: "null" or "loaded"
    appDb,      \* its state `db`: "null" or the DatabaseService ("database")
    isReady,    \* its state `isReady`
    status,     \* its state `status`
    inputText, searchText,   \* its states `inputText` and `searchText`
    results,    \* its state `results`
    initPc,     \* where initializeServices() waits
    initIdx,    \* the item populateTestData or demonstrateExpectedMatches is at
    pressed,    \* history: per call of a handler, whether db was null and whether it returned at once
    presses     \* calls of storeText and searchTexts so far

appVars == <<appModel, appDb, isReady, status, inputText, searchText, results,
             initPc, initIdx, pressed, presses>>

vars == <<db, model, table, rows, openPc, opens, call, calls, nextUuid,
          result, stored, discarded, qDist, qOther, qOut, cIn, cOut, appVars>>

qVars == <<qDist, qOther, qOut>>
cVars == <<cIn, cOut>>

---------------------------------------------------------------------------
(* Bounds *)

\* calls of storeEmbedding and searchSimilar in one run
MaxCalls == 3
\* calls of open() in one run
MaxOpens == 2
\* largest k tried by a search
MaxK == 2
\* largest distance tried, in thousandths (cosine distance is at most 2)
MaxDistance == 2000
\* longest head of a vector given to the codec
MaxHead == 2

---------------------------------------------------------------------------
(* Numbers and vectors *)

vectorDimension == 512

Num(n) == [k |-> "num", v |-> n]
NaN == [k |-> "NaN", v |-> 0]
PosInfinity == [k |-> "Infinity", v |-> 1]
NegInfinity == [k |-> "Infinity", v |-> -1]

\* Number.isFinite
isFinite(c) == c.k = "num"

Float32Array(n, h) == [len |-> n, head |-> h]

Digit == <<"0", "1", "2", "3", "4", "5", "6", "7", "8", "9">>

RECURSIVE Digits(_)
Digits(n) ==
    IF n < 10 THEN <<Digit[n + 1]>>
    ELSE Digits(n \div 10) \o <<Digit[(n % 10) + 1]>>

\* String(n) of Array.prototype.join, for an integer-valued number
NumberToString(n) == IF n < 0 THEN <<"-">> \o Digits(-n) ELSE Digits(n)

DigitValue(ch) == CHOOSE d \in 0..9 : Digit[d + 1] = ch

RECURSIVE ParseDigits(_)
ParseDigits(s) ==
    IF Len(s) = 0 THEN 0
    ELSE 10 * ParseDigits(SubSeq(s, 1, Len(s) - 1)) + DigitValue(s[Len(s)])

\* the number the SQL function vector() reads from one literal
ParseNumber(s) ==
    IF Len(s) > 0 /\ s[1] = "-" THEN -ParseDigits(Tail(s)) ELSE ParseDigits(s)

toVector_dropping(embedding) ==
    LET keep == SelectSeq(embedding.head, isFinite)
    IN  [len  |-> embedding.len - (Len(embedding.head) - Len(keep)),
         toks |-> [i \in 1..Len(keep) |-> NumberToString(keep[i].v)]]

\* toVector: every non-finite component becomes 0, then the numbers are joined
toVector(embedding) ==
    LET validNumbers ==
            [i \in 1..Len(embedding.head) |->
                IF isFinite(embedding.head[i]) THEN embedding.head[i].v ELSE 0]
    IN  [len  |-> embedding.len,
         toks |-> [i \in 1..Len(validNumbers) |-> NumberToString(validNumbers[i])]]

\* the SQL function vector(?): the stored vector, all components numbers
vector(text) ==
    [len  |-> text.len,
     head |-> [i \in 1..Len(text.toks) |-> ParseNumber(text.toks[i])]]

At(h, i) == IF i <= Len(h) THEN h[i] ELSE 0

Max(a, b) == IF a >= b THEN a ELSE b

Min(a, b) == IF a <= b THEN a ELSE b

RECURSIVE DotUpTo(_, _, _)
DotUpTo(a, b, n) ==
    IF n = 0 THEN 0 ELSE DotUpTo(a, b, n - 1) + At(a, n) * At(b, n)

Dot(a, b) == DotUpTo(a.head, b.head, Max(Len(a.head), Len(b.head)))

RECURSIVE SqrtBetween(_, _, _)
SqrtBetween(n, lo, hi) ==
    IF lo >= hi THEN lo
    ELSE LET mid == (lo + hi + 1) \div 2
         IN  IF mid * mid <= n THEN SqrtBetween(n, mid, hi)
             ELSE SqrtBetween(n, lo, mid - 1)

\* floor of the square root (of a number below 2^31)
Sqrt(n) == SqrtBetween(n, 0, IF n < 46340 THEN n ELSE 46340)

\* nearest integer to a / b, halves upwards (b > 0)
RoundDiv(a, b) == (2 * a + b) \div (2 * b)

\* vector_distance_cos of two vectors of non-zero norm, in thousandths:
\* 1 - dot / sqrt(norm1 * norm2)
vector_distance_cos(a, b) ==
    1000 - RoundDiv(1000000 * Dot(a, b), Sqrt(1000000 * Dot(a, a) * Dot(b, b)))

---------------------------------------------------------------------------
(* Result mapping of searchSimilar *)

\* Math.round((1 - distance) * 100): halves go up
similarity(distance) == (1000 - distance + 5) \div 10

getMatchQuality_strict(distance) ==
    IF distance < 150 THEN "Excellent"
    ELSE IF distance < 300 THEN "Very Good"
    ELSE IF distance < 450 THEN "Good"
    ELSE IF distance < 600 THEN "Fair"
    ELSE "Poor"

getMatchQuality(distance) ==
    IF distance <= 150 THEN "Excellent"
    ELSE IF distance <= 300 THEN "Very Good"
    ELSE IF distance <= 450 THEN "Good"
    ELSE IF distance <= 600 THEN "Fair"
    ELSE "Poor"

ResultRow(row, q) ==
    LET distance == vector_distance_cos(row.embedding, q)
    IN  [content      |-> row.content,
         similarity   |-> similarity(distance),
         id           |-> row.uuid,
         matchQuality |-> getMatchQuality(distance),
         distance     |-> distance]

---------------------------------------------------------------------------
(* The SQL statements *)

Injective(s) == \A i, j \in DOMAIN s : s[i] = s[j] => i = j

OrderBy_unsorted(rs) ==
    {s \in [1..Cardinality(rs) -> rs] : Injective(s)}

\* ORDER BY cos_distance ASC: the rows in an order of non-decreasing
\* distance; SQL leaves the order of equal distances open
OrderBy(rs) ==
    {s \in [1..Cardinality(rs) -> rs] :
        /\ Injective(s)
        /\ \A i, j \in DOMAIN s : i < j => s[i].distance <= s[j].distance}

\* LIMIT ?: a negative limit is no limit (SQLite)
Limit(s, k) == IF k < 0 THEN s ELSE SubSeq(s, 1, Min(k, Len(s)))

\* outcome of the SELECT of searchSimilar: an error kind, or "ok".
\* vector_distance_cos is evaluated row by row and rejects a row whose
\* vector has another length than the query; without rows nothing is rejected
SelectOutcome(q, k) ==
    IF table = "absent" THEN "NoSuchTable"
    ELSE IF \E r \in rows : r.embedding.len # q.len THEN "DimensionMismatch"
    ELSE "ok"

SelectRows(q, k) ==
    {Limit(s, k) : s \in OrderBy({ResultRow(r, q) : r \in rows})}

\* outcome of the INSERT of storeEmbedding: uuid is the PRIMARY KEY and
\* embedding an F32_BLOB(vectorDimension) column under a vector index
InsertOutcome(uuid, v) ==
    IF table = "absent" THEN "NoSuchTable"
    ELSE IF v.len # vectorDimension THEN "DimensionMismatch"
    ELSE IF \E r \in rows : r.uuid = uuid THEN "ConstraintViolation"
    ELSE "ok"

Row(uuid, content, v) == [uuid |-> uuid, content |-> content, embedding |-> v]

Insert_replacing(rs, row) == {r \in rs : r.content # row.content} \cup {row}

\* INSERT INTO embeddings: the rows afterwards
Insert(rs, row) == rs \cup {row}

DropTable_keeping(rs) == rs

\* DROP TABLE IF EXISTS embeddings: the rows that are left
DropTable(rs) == {}

---------------------------------------------------------------------------
(* State *)

\* the call sites whose calls of storeEmbedding and searchSimilar may overlap
Callers == {"a", "b"}

Texts == {"cat", "dog", "short"}

Undefined == [len |-> -1, head |-> <<>>]

\* model.embed([text]): the embedding the sentence encoder returns for a text;
\* one of them has a NaN component and one is a component short
embed(text) ==
    CASE text = "cat" -> Float32Array(vectorDimension, <<Num(3), Num(4)>>)
      [] text = "dog" -> Float32Array(vectorDimension, <<NaN, Num(-5)>>)
      [] OTHER        -> Float32Array(vectorDimension - 1, <<Num(3), Num(4)>>)

\* the limits tried: a negative one, zero, one, and the largest
Ks == {-1, 0, 1, MaxK}

NoRet == [kind |-> "none", uuid |-> -1, error |-> "", results |-> <<>>]
UuidRet(u) == [kind |-> "uuid", uuid |-> u, error |-> "", results |-> <<>>]
ErrorRet(e) == [kind |-> "error", uuid |-> -1, error |-> e, results |-> <<>>]
RowsRet(s) == [kind |-> "rows", uuid |-> -1, error |-> "", results |-> s]

\* a call in flight: where it waits, its arguments, the embedding and uuid it holds
Idle ==
    [pc |-> "idle", op |-> "none", content |-> "", vec |-> Undefined,
     k |-> 0, uuid |-> -1]

\* what the step just taken gave back to a caller: the call it completed
\* and the value returned or the error thrown
Returned(cl, r) == [op |-> cl.op, content |-> cl.content, vec |-> cl.vec,
                    k |-> cl.k, ret |-> r]

\* a row left in vector_db.db by an earlier run of the program
Leftover == Row(0, "cat", vector(toVector(embed("cat"))))

\* the step taken completes no call
NoReturn == result' = Returned(Idle, NoRet)

\* after new DatabaseService(model?): no handle; vector_db.db is new, or holds
\* the table of an earlier run
InitService ==
    /\ db = "undefined"
    /\ model \in {"null", "loaded"}
    /\ \/ table = "absent" /\ rows = {}
       \/ table = "indexed" /\ rows = {Leftover}
    /\ openPc = "idle"
    /\ opens = 0
    /\ call = [c \in Callers |-> Idle]
    /\ calls = 0
    /\ nextUuid = 1
    /\ result = Returned(Idle, NoRet)
    /\ stored = {}
    /\ discarded = 0

\* a value of the App screen's `status`: the message, and the error message
\* or identifier it carries
Status(msg) == [msg |-> msg, error |-> "", id |-> -1]

\* the App screen as useState leaves it, before its effect runs
InitApp ==
    /\ appModel = "null"
    /\ appDb = "null"
    /\ isReady = FALSE
    /\ status = Status("Initializing...")
    /\ inputText = ""
    /\ searchText = ""
    /\ results = <<>>
    /\ initPc = "mount"
    /\ initIdx = 0
    /\ pressed = {}
    /\ presses = 0

Init ==
    /\ InitService
    /\ InitApp
    /\ qDist = 0 /\ qOther = 0 /\ qOut = <<>>
    /\ cIn = Undefined /\ cOut = <<>>

---------------------------------------------------------------------------
(* setModel *)

setModel ==
    /\ model = "null"
    /\ model' = "loaded"
    /\ UNCHANGED <<db, table, rows, openPc, opens, call, calls, nextUuid,
                   stored, discarded, qVars, cVars>>
    /\ NoReturn

---------------------------------------------------------------------------
(* open(): one step per await *)

OpenCall ==
    /\ openPc = "idle"
    /\ opens < MaxOpens
    /\ openPc' = "opening"
    /\ opens' = opens + 1
    /\ UNCHANGED <<db, model, table, rows, call, calls, nextUuid,
                   stored, discarded, qVars, cVars>>
    /\ NoReturn

\* this.db = await open(...); DROP TABLE is issued
OpenHandle ==
    /\ openPc = "opening"
    /\ db' = "handle"
    /\ openPc' = "drop"
    /\ UNCHANGED <<model, table, rows, opens, call, calls, nextUuid,
                   stored, discarded, qVars, cVars>>
    /\ NoReturn

\* DROP TABLE IF EXISTS is done; CREATE TABLE is issued
OpenDrop ==
    /\ openPc = "drop"
    /\ table' = "absent"
    /\ rows' = DropTable(rows)
    /\ stored' = {}
    /\ discarded' = Cardinality(stored)
    /\ openPc' = "create"
    /\ UNCHANGED <<db, model, opens, call, calls, nextUuid, qVars, cVars>>
    /\ NoReturn

\* CREATE TABLE is done; CREATE INDEX is issued
OpenCreate ==
    /\ openPc = "create"
    /\ table' = "created"
    /\ openPc' = "index"
    /\ UNCHANGED <<db, model, rows, opens, call, calls, nextUuid, stored,
                   discarded, qVars, cVars>>
    /\ NoReturn

\* CREATE INDEX IF NOT EXISTS is done; open() returns
OpenIndex ==
    /\ openPc = "index"
    /\ table' = "indexed"
    /\ openPc' = "idle"
    /\ UNCHANGED <<db, model, rows, opens, call, calls, nextUuid,
                   stored, discarded, qVars, cVars>>
    /\ NoReturn

---------------------------------------------------------------------------
(* storeEmbedding(content, embedding?) and searchSimilar(queryText, k):     *)
(* one step per await                                                      *)

\* the call of c returns or throws r
Finish(c, cl, r) ==
    /\ call' = [call EXCEPT ![c] = Idle]
    /\ result' = Returned(cl, r)

\* the call of c goes on as cl and waits
Await(c, cl) ==
    /\ call' = [call EXCEPT ![c] = cl]
    /\ NoReturn

\* this.db.execute throws a TypeError while this.db is undefined
HandleUnset(handle) == handle = "undefined"

randomUUID_constant(n) == 1

\* Crypto.randomUUID(): the n-th value generated
randomUUID(n) == n

\* the call, up to its first await: with an embedding (the caller's
\* embed(content)) that is generateUUID(), without one generateEmbedding(content)
StoreCall(c) ==
    /\ call[c].pc = "idle"
    /\ calls < MaxCalls
    /\ calls' = calls + 1
    /\ \E content \in Texts, given \in BOOLEAN :
          LET new == [Idle EXCEPT !.op = "store", !.content = content]
          IN  IF given
              THEN Await(c, [new EXCEPT !.vec = embed(content), !.pc = "uuid"])
              ELSE IF model = "null"
              THEN Finish(c, new, ErrorRet("ModelNotInitialized"))
              ELSE Await(c, [new EXCEPT !.pc = "embed"])
    /\ UNCHANGED <<db, model, table, rows, openPc, opens, nextUuid, stored,
                   discarded, qVars, cVars>>

\* generateEmbedding returns; generateUUID() is called
StoreEmbedded(c) ==
    /\ call[c].pc = "embed"
    /\ call[c].op = "store"
    /\ Await(c, [call[c] EXCEPT !.vec = embed(call[c].content), !.pc = "uuid"])
    /\ UNCHANGED <<db, model, table, rows, openPc, opens, calls, nextUuid,
                   stored, discarded, qVars, cVars>>

\* generateUUID returns; this.db.execute(INSERT ...) is called
StoreUuid(c) ==
    /\ call[c].pc = "uuid"
    /\ nextUuid' = nextUuid + 1
    /\ LET cl == [call[c] EXCEPT !.uuid = randomUUID(nextUuid)]
       IN  IF HandleUnset(db)
           THEN Finish(c, cl, ErrorRet("TypeError"))
           ELSE Await(c, [cl EXCEPT !.pc = "insert"])
    /\ UNCHANGED <<db, model, table, rows, openPc, opens, calls, stored,
                   discarded, qVars, cVars>>

\* the INSERT is executed; storeEmbedding returns the uuid or throws
StoreInsert(c) ==
    /\ call[c].pc = "insert"
    /\ LET uuid == call[c].uuid
           v == vector(toVector(call[c].vec))
           outcome == InsertOutcome(uuid, v)
       IN  IF outcome = "ok"
           THEN /\ rows' = Insert(rows, Row(uuid, call[c].content, v))
                /\ stored' = stored \cup {Row(uuid, call[c].content, v)}
                /\ Finish(c, call[c], UuidRet(uuid))
           ELSE /\ Finish(c, call[c], ErrorRet(outcome))
                /\ UNCHANGED <<rows, stored>>
    /\ UNCHANGED <<db, model, table, openPc, opens, calls, nextUuid, discarded, qVars, cVars>>

\* the call, up to its first await: generateEmbedding(queryText)
SearchCall(c) ==
    /\ call[c].pc = "idle"
    /\ calls < MaxCalls
    /\ calls' = calls + 1
    /\ \E queryText \in Texts, k \in Ks :
          LET new == [Idle EXCEPT !.op = "search", !.content = queryText, !.k = k]
          IN  IF model = "null"
              THEN Finish(c, new, ErrorRet("ModelNotInitialized"))
              ELSE Await(c, [new EXCEPT !.pc = "embed"])
    /\ UNCHANGED <<db, model, table, rows, openPc, opens, nextUuid, stored,
                   discarded, qVars, cVars>>

\* generateEmbedding returns; this.db.execute(SELECT ...) is called
SearchEmbedded(c) ==
    /\ call[c].pc = "embed"
    /\ call[c].op = "search"
    /\ LET cl == [call[c] EXCEPT !.vec = embed(call[c].content)]
       IN  IF HandleUnset(db)
           THEN Finish(c, cl, ErrorRet("TypeError"))
           ELSE Await(c, [cl EXCEPT !.pc = "query"])
    /\ UNCHANGED <<db, model, table, rows, openPc, opens, calls, nextUuid,
                   stored, discarded, qVars, cVars>>

\* the SELECT is executed; searchSimilar maps the rows and returns, or throws
SearchQuery(c) ==
    /\ call[c].pc = "query"
    /\ LET q == vector(toVector(call[c].vec))
           outcome == SelectOutcome(q, call[c].k)
       IN  IF outcome = "ok"
           THEN \E s \in SelectRows(q, call[c].k) : Finish(c, call[c], RowsRet(s))
           ELSE Finish(c, call[c], ErrorRet(outcome))
    /\ UNCHANGED <<db, model, table, rows, openPc, opens, calls, nextUuid,
                   stored, discarded, qVars, cVars>>

\* the service on its own: no App screen is mounted
Next ==
    \/ setModel /\ UNCHANGED appVars
    \/ OpenCall /\ UNCHANGED appVars
    \/ OpenHandle /\ UNCHANGED appVars
    \/ OpenDrop /\ UNCHANGED appVars
    \/ OpenCreate /\ UNCHANGED appVars
    \/ OpenIndex /\ UNCHANGED appVars
    \/ \E c \in Callers :
          \/ StoreCall(c) /\ UNCHANGED appVars
          \/ StoreEmbedded(c) /\ UNCHANGED appVars
          \/ StoreUuid(c) /\ UNCHANGED appVars
          \/ StoreInsert(c) /\ UNCHANGED appVars
          \/ SearchCall(c) /\ UNCHANGED appVars
          \/ SearchEmbedded(c) /\ UNCHANGED appVars
          \/ SearchQuery(c) /\ UNCHANGED appVars

Spec == Init /\ [][Next]_vars

---------------------------------------------------------------------------
(* The result mapping of searchSimilar on its own: two distances           *)
(* (thousandths) and the similarity and matchQuality derived from each     *)

\* distances at and next to the thresholds of getMatchQuality
Probes == {0, 150, 151, 300, 301, 450, 451, 600, 601, 610, 1000, MaxDistance}

serviceVars == <<db, model, table, rows, openPc, opens, call, calls, nextUuid,
                 result, stored, discarded>>

InitMapping ==
    /\ InitService /\ model = "loaded" /\ table = "absent"
    /\ InitApp
    /\ qDist \in 0..MaxDistance
    /\ qOther \in Probes
    /\ qOut = <<>>
    /\ cIn = Undefined /\ cOut = <<>>

Mapped(distance) ==
    [similarity |-> similarity(distance), matchQuality |-> getMatchQuality(distance)]

MapRows ==
    /\ qOut = <<>>
    /\ qOut' = <<Mapped(qDist), Mapped(qOther)>>
    /\ UNCHANGED <<serviceVars, qDist, qOther, cVars, appVars>>

SpecMapping == InitMapping /\ [][MapRows]_vars

---------------------------------------------------------------------------
(* toVector and vector(?) on their own: an embedding and what is persisted *)
(* for it                                                                  *)

Components ==
    {Num(n) : n \in {-10, -1, 0, 1, 2, 10}} \cup {NaN, PosInfinity, NegInfinity}

Heads == UNION {[1..n -> Components] : n \in 0..MaxHead}

Lengths == {vectorDimension - 1, vectorDimension, vectorDimension + 1}

InitCodec ==
    /\ InitService /\ model = "loaded" /\ table = "absent"
    /\ InitApp
    /\ qDist = 0 /\ qOther = 0 /\ qOut = <<>>
    /\ cIn \in {Float32Array(n, h) : n \in Lengths, h \in Heads}
    /\ cOut = <<>>

\* the Float32Array that holds a stored vector again
AsFloat32Array(v) == Float32Array(v.len, [i \in 1..Len(v.head) |-> Num(v.head[i])])

\* the vector persisted for cIn, and the one persisted for that vector
Persist ==
    /\ cOut = <<>>
    /\ LET once == vector(toVector(cIn))
       IN  cOut' = <<once, vector(toVector(AsFloat32Array(once)))>>
    /\ UNCHANGED <<serviceVars, qVars, cIn, appVars>>

SpecCodec == InitCodec /\ [][Persist]_vars

---------------------------------------------------------------------------
(* The App screen (src/unnamed/part_001) on top of the service:            *)
(* initializeServices, run once by the effect, and the handlers storeText  *)
(* and searchTexts. The handlers can be called and the inputs edited at    *)
(* any time, whatever isReady allows. A handler sees the latest state.     *)

\* items populateTestData stores
MaxTestData == 2
\* queries demonstrateExpectedMatches runs
MaxTestQueries == 1
\* calls of storeText and searchTexts in one run
MaxPresses == 2

\* the k demonstrateExpectedMatches searches with
demoK == 5
\* the k searchTexts searches with
screenK == 5

\* who calls the service: initializeServices and the two handlers
AppCallers == {"init", "store", "search"}

\* what a text input can hold: nothing, blanks, a text, or one whose embedding is short
Inputs == {"", " ", "cat", "short"}

trim(text) == IF text \in {"", " "} THEN "" ELSE text

ErrorStatus(msg, e) == [msg |-> msg, error |-> e, id |-> -1]
IdStatus(msg, id) == [msg |-> msg, error |-> "", id |-> id]

\* one call of a handler: what it found `db` to be, and whether it returned at once
Press(handler, d, returned) ==
    [handler |-> handler, dbNull |-> d = "null", returned |-> returned]

\* no App screen without the service's file: vector_db.db is new or left over
InitScreen ==
    /\ InitApp
    /\ db = "undefined"
    /\ model = "null"
    /\ \/ table = "absent" /\ rows = {}
       \/ table = "indexed" /\ rows = {Leftover}
    /\ openPc = "idle"
    /\ opens = 0
    /\ call = [c \in AppCallers |-> Idle]
    /\ calls = 0
    /\ nextUuid = 1
    /\ result = Returned(Idle, NoRet)
    /\ stored = {}
    /\ discarded = 0
    /\ qDist = 0 /\ qOther = 0 /\ qOut = <<>>
    /\ cIn = Undefined /\ cOut = <<>>

\* what no step of storeEmbedding or searchSimilar changes but `call` and `result`
callFrame == <<db, model, table, rows, openPc, opens, calls, nextUuid, stored,
               discarded, qVars, cVars>>

\* storeEmbedding(content) up to its first await
BeginStore(c, content) ==
    LET new == [Idle EXCEPT !.op = "store", !.content = content]
    IN  IF model = "null"
        THEN Finish(c, new, ErrorRet("ModelNotInitialized"))
        ELSE Await(c, [new EXCEPT !.pc = "embed"])

\* searchSimilar(queryText, k) up to its first await
BeginSearch(c, queryText, k) ==
    LET new == [Idle EXCEPT !.op = "search", !.content = queryText, !.k = k]
    IN  IF model = "null"
        THEN Finish(c, new, ErrorRet("ModelNotInitialized"))
        ELSE Await(c, [new EXCEPT !.pc = "embed"])

\* open() throws what open(...) or an execute threw
OpenThrow ==
    /\ openPc # "idle"
    /\ openPc' = "idle"
    /\ UNCHANGED <<db, model, table, rows, opens, call, calls, nextUuid,
                   stored, discarded, qVars, cVars>>
    /\ NoReturn

\* the catch of initializeServices
Catch(e) ==
    /\ status' = ErrorStatus("Error", e)
    /\ initPc' = "failed"
    /\ UNCHANGED <<appModel, appDb, isReady, inputText, searchText, results,
                   initIdx, pressed, presses>>

\* the effect calls initializeServices(): up to await tf.ready()
InitializeServices ==
    /\ initPc = "mount"
    /\ status' = Status("Initializing TensorFlow.js...")
    /\ initPc' = "tf"
    /\ UNCHANGED <<appModel, appDb, isReady, inputText, searchText, results,
                   initIdx, pressed, presses>>
    /\ UNCHANGED <<callFrame, call>>
    /\ NoReturn

\* tf.ready() resolves: up to await use.load()
TfReady ==
    /\ initPc = "tf"
    /\ status' = Status("Loading Universal Sentence Encoder...")
    /\ initPc' = "load"
    /\ UNCHANGED <<appModel, appDb, isReady, inputText, searchText, results,
                   initIdx, pressed, presses>>
    /\ UNCHANGED <<callFrame, call>>
    /\ NoReturn

\* tf.ready() or use.load() rejects
LoadThrows ==
    /\ \/ initPc = "tf" /\ Catch("BackendUnavailable")
       \/ initPc = "load" /\ Catch("ModelUnavailable")
    /\ UNCHANGED <<callFrame, call>>
    /\ NoReturn

\* use.load() resolves: setModel, new DatabaseService(loadedModel), which
\* sets this.model as setModel does
UseLoaded ==
    /\ initPc = "load"
    /\ setModel
    /\ appModel' = "loaded"
    /\ status' = Status("Initializing database...")
    /\ initPc' = "construct"
    /\ UNCHANGED <<appDb, isReady, inputText, searchText, results, initIdx,
                   pressed, presses>>

\* database.open() is called
DatabaseOpen ==
    /\ initPc = "construct"
    /\ OpenCall
    /\ initPc' = "open"
    /\ UNCHANGED <<appModel, appDb, isReady, status, inputText, searchText,
                   results, initIdx, pressed, presses>>

\* open() goes on
DatabaseOpening ==
    /\ initPc = "open"
    /\ OpenHandle \/ OpenDrop \/ OpenCreate
    /\ UNCHANGED appVars

\* open() returns: up to the first await of populateTestData()
DatabaseOpened ==
    /\ initPc = "open"
    /\ OpenIndex
    /\ status' = Status("Adding test data...")
    /\ initPc' = "populate"
    /\ initIdx' = 1
    /\ UNCHANGED <<appModel, appDb, isReady, inputText, searchText, results,
                   pressed, presses>>

\* open() throws
DatabaseOpenThrows ==
    /\ initPc = "open"
    /\ OpenThrow
    /\ Catch("OpenFailed")

\* populateTestData: storeEmbedding(item.text) is called for the next item
PopulateStore ==
    /\ initPc = "populate"
    /\ call["init"].pc = "idle"
    /\ initIdx <= MaxTestData
    /\ \E text \in Texts : BeginStore("init", text)
    /\ UNCHANGED callFrame
    /\ UNCHANGED appVars

\* that storeEmbedding goes on; what it throws is logged, and the loop goes on
PopulateStoring ==
    /\ initPc = "populate"
    /\ StoreEmbedded("init") \/ StoreUuid("init") \/ StoreInsert("init")
    /\ initIdx' = IF call'["init"].pc = "idle" THEN initIdx + 1 ELSE initIdx
    /\ UNCHANGED <<appModel, appDb, isReady, status, inputText, searchText,
                   results, initPc, pressed, presses>>

\* populateTestData returns: up to the first await of demonstrateExpectedMatches()
Populated ==
    /\ initPc = "populate"
    /\ call["init"].pc = "idle"
    /\ initIdx > MaxTestData
    /\ status' = Status("Running similarity search demonstration...")
    /\ initPc' = "demo"
    /\ initIdx' = 1
    /\ UNCHANGED <<appModel, appDb, isReady, inputText, searchText, results,
                   pressed, presses>>
    /\ UNCHANGED <<callFrame, call>>
    /\ NoReturn

\* demonstrateExpectedMatches: searchSimilar(test.query, 5) is called for the next query
DemonstrateSearch ==
    /\ initPc = "demo"
    /\ call["init"].pc = "idle"
    /\ initIdx <= MaxTestQueries
    /\ \E query \in Texts : BeginSearch("init", query, demoK)
    /\ UNCHANGED callFrame
    /\ UNCHANGED appVars

\* that searchSimilar goes on; what it throws, demonstrateExpectedMatches throws
DemonstrateSearching ==
    /\ initPc = "demo"
    /\ SearchEmbedded("init") \/ SearchQuery("init")
    /\ IF call'["init"].pc # "idle"
       THEN UNCHANGED appVars
       ELSE IF result'.ret.kind = "error"
       THEN Catch(result'.ret.error)
       ELSE /\ initIdx' = initIdx + 1
            /\ UNCHANGED <<appModel, appDb, isReady, status, inputText,
                           searchText, results, initPc, pressed, presses>>

\* demonstrateExpectedMatches returns: setDb(database), "Ready!", setIsReady(true)
Demonstrated ==
    /\ initPc = "demo"
    /\ call["init"].pc = "idle"
    /\ initIdx > MaxTestQueries
    /\ appDb' = "database"
    /\ status' = Status("Ready!")
    /\ isReady' = TRUE
    /\ initPc' = "ready"
    /\ UNCHANGED <<appModel, inputText, searchText, results, initIdx,
                   pressed, presses>>
    /\ UNCHANGED <<callFrame, call>>
    /\ NoReturn

\* onChangeText of the two inputs
ChangeText ==
    /\ \/ \E t \in Inputs \ {inputText} : inputText' = t /\ UNCHANGED searchText
       \/ \E t \in Inputs \ {searchText} : searchText' = t /\ UNCHANGED inputText
    /\ UNCHANGED <<appModel, appDb, isReady, status, results, initPc, initIdx,
                   pressed, presses>>
    /\ UNCHANGED <<callFrame, call>>
    /\ NoReturn

storeTextReturns_unguarded(text, m, d) == trim(text) = "" \/ m = "null"

\* the guard of storeText: if it holds the handler returns at once
storeTextReturns(text, m, d) == trim(text) = "" \/ m = "null" \/ d = "null"

\* the guard of searchTexts
searchTextsReturns(text, d) == trim(text) = "" \/ d = "null"

\* storeText(): up to await db.storeEmbedding(inputText); calling a method of
\* null throws a TypeError into the handler's catch
storeText ==
    /\ presses < MaxPresses
    /\ call["store"].pc = "idle"
    /\ presses' = presses + 1
    /\ LET returns == storeTextReturns(inputText, appModel, appDb)
       IN  /\ pressed' = pressed \cup {Press("storeText", appDb, returns)}
           /\ IF returns
              THEN UNCHANGED <<status, call>> /\ NoReturn
              ELSE IF appDb = "null"
              THEN /\ status' = ErrorStatus("Error storing text", "TypeError")
                   /\ UNCHANGED call
                   /\ NoReturn
              ELSE /\ status' = Status("Storing text...")
                   /\ BeginStore("store", inputText)
    /\ UNCHANGED <<appModel, appDb, isReady, inputText, searchText, results,
                   initPc, initIdx>>
    /\ UNCHANGED callFrame

\* db.storeEmbedding goes on; when it returns or throws, so does storeText
storeTextStoring ==
    /\ StoreEmbedded("store") \/ StoreUuid("store") \/ StoreInsert("store")
    /\ IF call'["store"].pc # "idle"
       THEN UNCHANGED <<status, inputText>>
       ELSE IF result'.ret.kind = "error"
       THEN /\ status' = ErrorStatus("Error storing text", result'.ret.error)
            /\ UNCHANGED inputText
       ELSE /\ status' = IdStatus("Stored with ID", result'.ret.uuid)
            /\ inputText' = ""
    /\ UNCHANGED <<appModel, appDb, isReady, searchText, results, initPc,
                   initIdx, pressed, presses>>

\* searchTexts(): up to await db.searchSimilar(searchText, 5)
searchTexts ==
    /\ presses < MaxPresses
    /\ call["search"].pc = "idle"
    /\ presses' = presses + 1
    /\ LET returns == searchTextsReturns(searchText, appDb)
       IN  /\ pressed' = pressed \cup {Press("searchTexts", appDb, returns)}
           /\ IF returns
              THEN UNCHANGED <<status, call>> /\ NoReturn
              ELSE IF appDb = "null"
              THEN /\ status' = ErrorStatus("Error searching", "TypeError")
                   /\ UNCHANGED call
                   /\ NoReturn
              ELSE /\ status' = Status("Searching...")
                   /\ BeginSearch("search", searchText, screenK)
    /\ UNCHANGED <<appModel, appDb, isReady, inputText, searchText, results,
                   initPc, initIdx>>
    /\ UNCHANGED callFrame

\* db.searchSimilar goes on; when it returns or throws, so does searchTexts
searchTextsSearching ==
    /\ SearchEmbedded("search") \/ SearchQuery("search")
    /\ IF call'["search"].pc # "idle"
       THEN UNCHANGED <<status, results>>
       ELSE IF result'.ret.kind = "error"
       THEN /\ status' = ErrorStatus("Error searching", result'.ret.error)
            /\ UNCHANGED results
       ELSE /\ status' = Status("Search complete")
            /\ results' = result'.ret.results
    /\ UNCHANGED <<appModel, appDb, isReady, inputText, searchText, initPc,
                   initIdx, pressed, presses>>

NextApp ==
    \/ InitializeServices \/ TfReady \/ LoadThrows \/ UseLoaded
    \/ DatabaseOpen \/ DatabaseOpening \/ DatabaseOpened \/ DatabaseOpenThrows
    \/ PopulateStore \/ PopulateStoring \/ Populated
    \/ DemonstrateSearch \/ DemonstrateSearching \/ Demonstrated
    \/ ChangeText
    \/ storeText \/ storeTextStoring
    \/ searchTexts \/ searchTextsSearching

SpecApp == InitScreen /\ [][NextApp]_vars

---------------------------------------------------------------------------
(* Properties *)

\* some open() has returned and none is under way
OpenDone == openPc = "idle" /\ opens > 0

SearchReturned == result.op = "search" /\ result.ret.kind = "rows"
StoreReturned == result.op = "store" /\ result.ret.kind = "uuid"
Threw == result.op # "none" /\ result.ret.kind = "error"

Results == result.ret.results
ResultIds == {Results[i].id : i \in DOMAIN Results}
RowIds == {r.uuid : r \in rows}

\* the vector a call's embedding is persisted or queried as
Sanitized(v) == vector(toVector(v))

\* C1: open() is a full reset. Once open() has returned, and no
\* storeEmbedding has inserted since its DROP TABLE, the table holds no row,
\* whatever was stored before; a search that returns then returns the empty list.
C1_OpenIsFullReset ==
    (OpenDone /\ stored = {}) =>
        /\ rows = {}
        /\ SearchReturned => Results = <<>>

\* C1 witness: the second open() has returned, its DROP TABLE discarded
\* rows that storeEmbedding had inserted, and a search returns the empty list
C1_Witness ==
    /\ OpenDone /\ opens = 2 /\ discarded > 0 /\ stored = {}
    /\ SearchReturned /\ Results = <<>> /\ result.k # 0

\* C2: a search that returns for k >= 0 returns min(k, number of rows)
\* results; each is a row with its cosine distance to the query; no row left
\* out is strictly closer than a returned one; distances do not decrease.
C2_TopK ==
    (SearchReturned /\ result.k >= 0) =>
        LET q == Sanitized(result.vec)
        IN  /\ Len(Results) = Min(result.k, Cardinality(rows))
            /\ \A i, j \in DOMAIN Results : Results[i].id = Results[j].id => i = j
            /\ \A i \in DOMAIN Results :
                  \E r \in rows :
                      /\ r.uuid = Results[i].id
                      /\ r.content = Results[i].content
                      /\ Results[i].distance = vector_distance_cos(r.embedding, q)
            /\ \A i, j \in DOMAIN Results :
                  i < j => Results[i].distance <= Results[j].distance
            /\ \A r \in rows :
                  r.uuid \notin ResultIds =>
                      \A i \in DOMAIN Results :
                          Results[i].distance <= vector_distance_cos(r.embedding, q)

\* C2 witness: a search with k = 1 over two rows at different distances
\* returns the closer one
C2_Witness ==
    /\ SearchReturned /\ result.k = 1 /\ Len(Results) = 1
    /\ Cardinality(rows) = 2
    /\ \E r \in rows :
          vector_distance_cos(r.embedding, Sanitized(result.vec)) > Results[1].distance

Labels == <<"Excellent", "Very Good", "Good", "Fair", "Poor">>

Rank(label) == CHOOSE i \in DOMAIN Labels : Labels[i] = label

LabelAt(distance, label) ==
    /\ label \in {Labels[i] : i \in DOMAIN Labels}
    /\ label = "Excellent" <=> distance <= 150
    /\ label = "Very Good" <=> (150 < distance /\ distance <= 300)
    /\ label = "Good" <=> (300 < distance /\ distance <= 450)
    /\ label = "Fair" <=> (450 < distance /\ distance <= 600)
    /\ label = "Poor" <=> 600 < distance

\* C3: match quality is a step function of the distance with inclusive upper
\* boundaries 0.15, 0.30, 0.45, 0.60: every distance gets exactly one label,
\* 0.15, 0.30, 0.45, 0.60, 0.61 get Excellent, Very Good, Good, Fair, Poor, and
\* a larger distance never gets a better label than a smaller one.
C3_MatchQuality ==
    qOut # <<>> =>
        LET label == qOut[1].matchQuality
            other == qOut[2].matchQuality
        IN  /\ LabelAt(qDist, label)
            /\ LabelAt(qOther, other)
            /\ qDist = 150 => label = "Excellent"
            /\ qDist = 300 => label = "Very Good"
            /\ qDist = 450 => label = "Good"
            /\ qDist = 600 => label = "Fair"
            /\ qDist = 610 => label = "Poor"
            /\ qDist <= qOther => Rank(label) <= Rank(other)
            /\ qOther <= qDist => Rank(other) <= Rank(label)

\* C3 witness: the distances 0.15 and 0.61 have been classified
C3_Witness ==
    /\ qOut # <<>> /\ qDist = 150 /\ qOther = 610
    /\ qOut[1].matchQuality = "Excellent" /\ qOut[2].matchQuality = "Poor"

\* C4: a store or a search whose vector has a length other than
\* vectorDimension fails.
C4_DimensionGuard ==
    (result.op # "none" /\ result.vec # Undefined
     /\ result.vec.len # vectorDimension) => Threw

\* C5: a store or a search that finishes while no open() has returned yet
\* (so it was issued before any open() completed) fails.
C5_FailsUntilOpenReturns ==
    (result.op # "none" /\ ~(opens > 1 \/ OpenDone)) => Threw

\* C6: what is persisted (or queried) for an embedding has its length, at
\* each position the component itself when it is finite and 0 when it is
\* NaN or an infinity; [NaN, 1, 0, ...] is persisted as [0, 1, 0, ...];
\* persisting the persisted vector again gives the same vector.
C6_Sanitization ==
    cOut # <<>> =>
        LET once == cOut[1]
            again == cOut[2]
        IN  /\ once.len = cIn.len
            /\ Len(once.head) = Len(cIn.head)
            /\ \A i \in DOMAIN cIn.head :
                  once.head[i] = IF cIn.head[i].k = "num" THEN cIn.head[i].v ELSE 0
            /\ cIn.head = <<NaN, Num(1)>> => once.head = <<0, 1>>
            /\ again = once

\* C6 witness: [NaN, 1, 0, ...] has been persisted as [0, 1, 0, ...]
C6_Witness ==
    /\ cOut # <<>> /\ cIn.head = <<NaN, Num(1)>> /\ cIn.len = vectorDimension
    /\ cOut[1] = [len |-> vectorDimension, head |-> <<0, 1>>]

\* C7: two calls of storeEmbedding in flight hold different uuids, no INSERT
\* fails on the primary key, no two rows share a uuid, every row inserted
\* since the last DROP TABLE is in the table, and a search that returns
\* without a limit below the number of rows lists every row.
C7_DistinctIdentifiers ==
    /\ \A c1, c2 \in Callers :
          (c1 # c2 /\ call[c1].pc = "insert" /\ call[c2].pc = "insert")
              => call[c1].uuid # call[c2].uuid
    /\ result.ret.error # "ConstraintViolation"
    /\ \A r1, r2 \in rows : r1.uuid = r2.uuid => r1 = r2
    /\ stored \subseteq rows
    /\ (SearchReturned /\ (result.k < 0 \/ result.k >= Cardinality(rows)))
          => ResultIds = RowIds

\* C7 witness: of two stores the one that drew its uuid first inserted last
\* (so the calls overlapped); both rows are in the table, under two uuids
C7_Witness ==
    /\ StoreReturned
    /\ \E r1, r2 \in stored :
          /\ r1.uuid = result.ret.uuid
          /\ r2.uuid > r1.uuid
          /\ {r1, r2} \subseteq rows

\* C8: the similarity of every result of a search is
\* round((1 - distance) * 100) clamped into 0..100.
C8_SimilarityClamped ==
    SearchReturned =>
        \A i \in DOMAIN Results :
            /\ Results[i].similarity >= 0
            /\ Results[i].similarity <= 100

\* C9: a search with k <= 0 returns the empty list.
C9_NonPositiveKIsEmpty ==
    (SearchReturned /\ result.k <= 0) => Results = <<>>

\* C10: between two DROP TABLEs the rows only grow. A step other than the
\* DROP TABLE of open() removes no row and changes none; a step that
\* completes a search, or a store that throws, leaves the rows as they are; a
\* store that returns adds exactly its own row (its uuid, its content, its
\* sanitized vector); every row stored since the last DROP TABLE is present.
C10_OnlyOpenRemoves ==
    /\ [](stored \subseteq rows)
    /\ [][/\ ~(openPc = "drop" /\ openPc' = "create") => rows \subseteq rows'
          /\ (result'.op = "search" \/ result'.ret.kind = "error") => rows' = rows
          /\ result'.ret.kind = "uuid" =>
                LET row == Row(result'.ret.uuid, result'.content,
                               Sanitized(result'.vec))
                IN  /\ row \notin rows
                    /\ rows' = rows \cup {row}
          /\ rows' # rows =>
                \/ result'.ret.kind = "uuid"
                \/ openPc = "drop" /\ openPc' = "create"]_vars

\* C10 witness: a search returns while the table holds the two rows stored
\* since the last DROP TABLE
C10_Witness ==
    /\ SearchReturned /\ Cardinality(stored) = 2 /\ rows = stored /\ opens > 0
    /\ table = "indexed"

\* the storeEmbedding or searchSimilar a handler called is under way
HandlerCalls == {c \in {"store", "search"} : call[c].pc # "idle"}

\* the database initializeServices opened is open: open() has returned, the
\* handle is set and the table and its index exist
DatabaseIsOpen == OpenDone /\ db = "handle" /\ table = "indexed"

\* C11: in the App screen no store or search of a handler reaches the
\* database before initialization has finished. db is set only once open(),
\* populateTestData() and demonstrateExpectedMatches() have completed
\* (initializeServices is past all three, and the database is open); a
\* handler called while db is null returns at once, and no call of a handler
\* is under way unless db is set and the database is open; once a step of
\* initialization has thrown, db is null, isReady is false and status shows
\* the error; and no call ever fails for a missing handle or table.
C11_NoCallBeforeInitialized ==
    /\ appDb # "null" => initPc = "ready" /\ DatabaseIsOpen
    /\ isReady => appDb # "null"
    /\ \A p \in pressed : p.dbNull => p.returned
    /\ HandlerCalls # {} => appDb # "null" /\ DatabaseIsOpen
    /\ initPc = "failed" =>
          appDb = "null" /\ ~isReady /\ status.msg = "Error" /\ status.error # ""
    /\ ~(Threw /\ result.ret.error \in {"TypeError", "NoSuchTable"})

\* a handler was called while db was null and returned at once, and now,
\* after initialization, a storeText has stored its text
C11_Witness ==
    /\ \E p \in pressed : p.dbNull /\ p.returned
    /\ initPc = "ready"
    /\ StoreReturned
    /\ status.msg = "Stored with ID"

====
